---- MODULE Spec2Model ----
(***************************************************************************)
(* Model of the image-processing service in three parts.                   *)
(*                                                                         *)
(* QueueService (services/queue.service.ts): a p-queue instance with       *)
(* bounded concurrency and a per-job timeout, wrapped by add(), which adds *)
(* shutdown rejection, queue-depth rejection and a request timeout, and by *)
(* onModuleDestroy(), which drains the queue.  Specification Spec.         *)
(*                                                                         *)
(* ImageProcessorService.processStream (services/image-processor.service)  *)
(* called on one request: the pipeline of codec instructions it builds,    *)
(* the codec calls it makes and its outcome.  Specification PipeSpec.      *)
(* WmSpec follows the same code over images, overlays and watermark specs  *)
(* of several sizes.                                                       *)
(*                                                                         *)
(* ImageProcessingController.process (image-processing.controller.ts) for  *)
(* one request, together with the queue and processStream.  Specification  *)
(* CtlSpec.  LiveSpec is the queue under fair timers.                      *)
(*                                                                         *)
(* Time is discrete.  Every armed timer is a countdown in ticks; Tick is   *)
(* disabled while a timer is due, so a timer callback runs at its due      *)
(* time.  A work function is an environment process: once invoked it may   *)
(* return, throw, or stay active forever.                                  *)
(***************************************************************************)
EXTENDS Integers, Sequences, FiniteSets, TLC

\* ---------------------------------------------------------------- bounds
MaxCalls == 3            \* number of add() calls explored
MaxConcurrency == 2      \* largest maxConcurrency explored
MaxQueueSizeBound == 1   \* largest maxQueueSize explored (0 = unlimited)
JobTimeout == 1          \* config.queue.timeout, in ticks
RequestTimeout == 2      \* config.queue.requestTimeout, in ticks
ShutdownTimeout == 1     \* documented SHUTDOWN_TIMEOUT_MS, in ticks

\* ------------------------------------------------------ program constants
MinPriority == 0
MaxPriority == 2
DefaultPriority == 2

\* The two ends of the priority range accepted by ProcessImageDto.
Priorities == {MinPriority, MaxPriority}

VARIABLES
    concurrency,     \* PQueue concurrency (maxConcurrency)
    maxQueueSize,    \* QueueService.maxQueueSize
    isShuttingDown,  \* QueueService.isShuttingDown
    shutdownPc,      \* position of onModuleDestroy: "idle", "draining", "complete"
    drainElapsed,    \* ticks since onModuleDestroy was invoked (observer clock)
    queue,           \* PQueue's waiting array: call ids, head first
    pending,         \* PQueue's count of running tasks
    calls,           \* one record per add() call, in call order
    execOrder,       \* ids of the calls whose work function was invoked, in order
    args,            \* processStream's arguments: mimeType, transform, output, watermark
    defaults,        \* ImageProcessorService.defaults
    signal,          \* processStream's signal argument: "none", "live" or "aborted"
    pc,              \* position of processStream
    pipeline,        \* the sharp instance held in `pipeline`
    codecLog,        \* every call made to the codec so far, in order
    result,          \* what processStream returned or threw
    files,           \* the decoded sizes of the input image and of the overlay file
    wm,              \* applyWatermark: the base size it was given, the composites it made
    resp,            \* the HTTP response of the request handled by process()
    wpc,             \* position of the work function that process() hands to add()
    workError,       \* the error that work function threw
    cpc,             \* position of process() itself
    mainFileData     \* the part named 'file' that process() read, if any

\* The state of processStream.
pipe == <<args, defaults, signal, pc, pipeline, codecLog, result, files, wm>>

\* The state of the controller's process().
caller == <<resp, wpc, workError, cpc, mainFileData>>

vars == <<concurrency, maxQueueSize, isShuttingDown, shutdownPc, drainElapsed,
          queue, pending, calls, execOrder, pipe, caller>>

\* What no operation of the queue changes: its configuration, and the
\* request being processed.
config == <<concurrency, maxQueueSize, pipe, caller>>

Ids == 1..Len(calls)

Range(q) == {q[i] : i \in 1..Len(q)}

\* ------------------------------------------------------------- p-queue
\* p-queue is an external library; its behaviour is modelled at the places
\* where QueueService constructs and calls it.

\* Variant of the lower bound that stops before equal priorities.
LowerBoundStrict(q, prio, cs) ==
    Cardinality({i \in 1..Len(q) : cs[q[i]].prio > prio})

\* PriorityQueue.enqueue: the new element goes after every element whose
\* priority is greater than or equal to its own (lower bound on a queue kept
\* in descending priority order).
LowerBound(q, prio, cs) ==
    Cardinality({i \in 1..Len(q) : cs[q[i]].prio >= prio})

\* Variant of enqueue that ignores the priority.
EnqueueFifo(q, id, cs) == Append(q, id)

Enqueue(q, id, cs) ==
    LET k == LowerBound(q, cs[id].prio, cs)
    IN  SubSeq(q, 1, k) \o <<id>> \o SubSeq(q, k + 1, Len(q))

\* Variant of the start of a task that restarts the request timer, so that
\* the request timeout would cover execution only.
TryToStartAnotherRearm(s) ==
    IF s.queue # <<>> /\ s.pending < concurrency
    THEN LET j == Head(s.queue)
         IN  [queue     |-> Tail(s.queue),
              pending   |-> s.pending + 1,
              calls     |-> [s.calls EXCEPT ![j].q = "running",
                                            ![j].work = "active",
                                            ![j].jobLeft = JobTimeout,
                                            ![j].reqLeft = IF s.calls[j].reqTimer = "armed"
                                                           THEN RequestTimeout ELSE @],
              execOrder |-> Append(s.execOrder, j)]
    ELSE s

\* PQueue.#tryToStartAnother: when the waiting array is not empty and
\* pending < concurrency, dequeue the head and run it: pending++, the work
\* function is invoked and the per-job timeout is armed.
\* The state is the record [queue, pending, calls, execOrder].
TryToStartAnother(s) ==
    IF s.queue # <<>> /\ s.pending < concurrency
    THEN LET j == Head(s.queue)
         IN  [queue     |-> Tail(s.queue),
              pending   |-> s.pending + 1,
              calls     |-> [s.calls EXCEPT ![j].q = "running",
                                            ![j].work = "active",
                                            ![j].jobLeft = JobTimeout],
              execOrder |-> Append(s.execOrder, j)]
    ELSE s

\* Variant of #next that frees the slot without starting a waiting task.
NextTaskLeavesSlotFree(s) ==
    [s EXCEPT !.pending = s.pending - 1]

\* PQueue.#next: pending--, then try to start another task.
NextTask(s) ==
    TryToStartAnother([s EXCEPT !.pending = s.pending - 1])

\* Variant of the continuation of add() that wraps the error of the work
\* function in an error of its own.
SettleWrapsError(c, outcome) ==
    IF c.res = "pending"
    THEN [c EXCEPT !.res = IF outcome = "err" THEN "InternalError" ELSE outcome,
                   !.reqTimer = IF outcome = "RequestTimeout" THEN "fired" ELSE "cleared",
                   !.reqLeft = 0]
    ELSE c

\* The QueueService.add() continuation after Promise.race settles: the
\* outcome is delivered to the caller once, and finally{} clears the timer.
Settle(c, outcome) ==
    IF c.res = "pending"
    THEN [c EXCEPT !.res = outcome,
                   !.reqTimer = IF outcome = "RequestTimeout" THEN "fired" ELSE "cleared",
                   !.reqLeft = 0]
    ELSE c

Cur == [queue |-> queue, pending |-> pending, calls |-> calls, execOrder |-> execOrder]

Install(s) ==
    /\ queue' = s.queue
    /\ pending' = s.pending
    /\ calls' = s.calls
    /\ execOrder' = s.execOrder

\* Variant of the record of a call in which the request timer is armed
\* whatever the outcome of the admission.
NewCallArmsTimer(p, res, q, timer, waiting) ==
    [prio |-> p, q |-> q, work |-> "notStarted", res |-> res,
     reqTimer |-> "armed", reqLeft |-> RequestTimeout,
     jobLeft |-> 0, coWait |-> waiting, timedOutAt |-> <<>>]

\* Variant of the record of a call in which the request timer is never
\* armed.
NewCallWithoutTimer(p, res, q, timer, waiting) ==
    [prio |-> p, q |-> q, work |-> "notStarted", res |-> res,
     reqTimer |-> "unset", reqLeft |-> 0,
     jobLeft |-> 0, coWait |-> waiting, timedOutAt |-> <<>>]

\* coWait records which calls were waiting when this one was enqueued;
\* timedOutAt is <<queue.size, queue.pending>> as read by the callback of the
\* request timer for its message, and <<>> while that timer has not fired.
NewCall(p, res, q, timer, waiting) ==
    [prio |-> p, q |-> q, work |-> "notStarted", res |-> res,
     reqTimer |-> timer, reqLeft |-> IF timer = "armed" THEN RequestTimeout ELSE 0,
     jobLeft |-> 0, coWait |-> waiting, timedOutAt |-> <<>>]

\* The state of the queue.
queueVars == <<concurrency, maxQueueSize, isShuttingDown, shutdownPc, drainElapsed,
               queue, pending, calls, execOrder>>

\* No sharp instance yet; a sharp instance records where its input comes
\* from and the instructions issued on it.
NoPipeline == [input |-> "none", instr |-> <<>>, destroyed |-> FALSE]

NoError == [type |-> "", message |-> ""]
NoMime == [type |-> "", subtype |-> ""]
NoResult == [kind |-> "none", error |-> NoError, format |-> "", mimeType |-> NoMime]

\* A size in pixels; no files were supplied; applyWatermark was not called.
Size(w, h) == [width |-> w, height |-> h]
NoFiles == [image |-> Size(0, 0), overlay |-> Size(0, 0)]
NoWatermark == [base |-> {}, composites |-> <<>>]

\* No processStream call is in progress.
PipeIdle ==
    /\ args = {}
    /\ defaults = {}
    /\ signal = "none"
    /\ pc = "idle"
    /\ pipeline = NoPipeline
    /\ codecLog = <<>>
    /\ result = NoResult
    /\ files = NoFiles
    /\ wm = NoWatermark

\* The response of a request: whether res.send was called with the encoded
\* result, what was written (body), the exception that process() threw, if
\* any, and the state of the connection (raw).
NoResponse == [sendCalled |-> FALSE, body |-> "none", error |-> NoError, raw |-> "open"]

\* process()'s mainFileData: null, or what was read from the part named
\* 'file' (a set of at most one element).
NoMainFile == {}
MainFile == {[mimetype |-> "image/png"]}

\* No request is being handled by process().
CallerIdle ==
    /\ resp = NoResponse
    /\ wpc = "idle"
    /\ workError = NoError
    /\ cpc = "idle"
    /\ mainFileData = NoMainFile

\* --------------------------------------------------------- QueueService
Init ==
    /\ PipeIdle
    /\ CallerIdle
    /\ concurrency \in 1..MaxConcurrency
    /\ maxQueueSize \in 0..MaxQueueSizeBound
    /\ isShuttingDown = FALSE
    /\ shutdownPc = "idle"
    /\ drainElapsed = 0
    /\ queue = <<>>
    /\ pending = 0
    /\ calls = <<>>
    /\ execOrder = <<>>

\* Variant of the queue-depth test that also counts running tasks.
QueueIsOverloadedCountingRunning ==
    maxQueueSize > 0 /\ Len(queue) + pending >= maxQueueSize

\* The queue-depth test of add(): PQueue.size counts waiting tasks only.
QueueIsOverloaded ==
    maxQueueSize > 0 /\ Len(queue) >= maxQueueSize

\* QueueService.add(task, priority)
Add(p) ==
    /\ Len(calls) < MaxCalls
    /\ LET id == Len(calls) + 1 IN
       IF isShuttingDown
       THEN /\ calls' = Append(calls, NewCall(p, "ServiceUnavailable", "none", "unset", {}))
            /\ UNCHANGED <<queue, pending, execOrder>>
       ELSE IF QueueIsOverloaded
       THEN /\ calls' = Append(calls, NewCall(p, "Overloaded", "none", "unset", {}))
            /\ UNCHANGED <<queue, pending, execOrder>>
       ELSE LET cs == Append(calls, NewCall(p, "pending", "waiting", "armed", Range(queue)))
                s0 == [queue |-> Enqueue(queue, id, cs), pending |-> pending,
                       calls |-> cs, execOrder |-> execOrder]
            IN  Install(TryToStartAnother(s0))
    /\ UNCHANGED <<config, isShuttingDown, shutdownPc, drainElapsed>>

\* Variant of the end of a work function that retries once: when the work
\* function throws while p-queue awaits it, it is invoked a second time.
WorkFinishRetry(j, ok) ==
    /\ j \in Ids
    /\ calls[j].work = "active"
    /\ LET cs1 == [calls EXCEPT ![j].work = IF ok THEN "returned" ELSE "threw"]
           runs == Cardinality({i \in 1..Len(execOrder) : execOrder[i] = j})
       IN  IF calls[j].q = "running" /\ ~ok /\ runs < 2
           THEN /\ execOrder' = Append(execOrder, j)
                /\ UNCHANGED <<queue, pending, calls>>
           ELSE IF calls[j].q = "running"
           THEN LET cs2 == [cs1 EXCEPT ![j] = Settle([cs1[j] EXCEPT !.q = "done", !.jobLeft = 0],
                                                      IF ok THEN "ok" ELSE "err")]
                IN  Install(NextTask([Cur EXCEPT !.calls = cs2]))
           ELSE /\ calls' = cs1
                /\ UNCHANGED <<queue, pending, execOrder>>
    /\ UNCHANGED <<config, isShuttingDown, shutdownPc, drainElapsed>>

\* The work function of call j returns (ok = TRUE) or throws (ok = FALSE).
\* While p-queue still awaits it, the task promise settles, add() settles
\* and the slot is handed on; after a job timeout nobody awaits it.
WorkFinish(j, ok) ==
    /\ j \in Ids
    /\ calls[j].work = "active"
    /\ LET cs1 == [calls EXCEPT ![j].work = IF ok THEN "returned" ELSE "threw"]
       IN  IF calls[j].q = "running"
           THEN LET cs2 == [cs1 EXCEPT ![j] = Settle([cs1[j] EXCEPT !.q = "done", !.jobLeft = 0],
                                                      IF ok THEN "ok" ELSE "err")]
                IN  Install(NextTask([Cur EXCEPT !.calls = cs2]))
           ELSE /\ calls' = cs1
                /\ UNCHANGED <<queue, pending, execOrder>>
    /\ UNCHANGED <<config, isShuttingDown, shutdownPc, drainElapsed>>

\* Variant of the per-job timeout whose clock runs from enqueue: it also
\* fires for a call that is still waiting and takes it out of the queue.
JobTimeoutFireFromEnqueue(j) ==
    /\ j \in Ids
    /\ calls[j].q \in {"waiting", "running"}
    /\ calls[j].jobLeft = 0
    /\ LET cs2 == [calls EXCEPT ![j] = Settle([calls[j] EXCEPT !.q = "done"], "JobTimeout")]
       IN  IF calls[j].q = "running"
           THEN Install(NextTask([Cur EXCEPT !.calls = cs2]))
           ELSE /\ calls' = cs2
                /\ queue' = SelectSeq(queue, LAMBDA x : x # j)
                /\ UNCHANGED <<pending, execOrder>>
    /\ UNCHANGED <<config, isShuttingDown, shutdownPc, drainElapsed>>

\* p-queue's per-job timeout fires for running call j: the task promise
\* rejects with TimeoutError and the slot is handed on; the work function
\* is not stopped.
JobTimeoutFire(j) ==
    /\ j \in Ids
    /\ calls[j].q = "running"
    /\ calls[j].jobLeft = 0
    /\ LET cs2 == [calls EXCEPT ![j] = Settle([calls[j] EXCEPT !.q = "done"], "JobTimeout")]
       IN  Install(NextTask([Cur EXCEPT !.calls = cs2]))
    /\ UNCHANGED <<config, isShuttingDown, shutdownPc, drainElapsed>>

\* The request timer of call j fires: add() rejects with
\* RequestTimeoutException; the task stays in p-queue.
RequestTimeoutFire(j) ==
    /\ j \in Ids
    /\ calls[j].reqTimer = "armed"
    /\ calls[j].reqLeft = 0
    /\ calls' = [calls EXCEPT ![j] = [Settle(calls[j], "RequestTimeout") EXCEPT
                                        !.timedOutAt = <<Len(queue), pending>>]]
    /\ UNCHANGED <<config, isShuttingDown, shutdownPc, drainElapsed, queue, pending, execOrder>>

\* Variant of onModuleDestroy that also empties the waiting array.
OnModuleDestroyClearsQueue ==
    /\ shutdownPc = "idle"
    /\ isShuttingDown' = TRUE
    /\ shutdownPc' = "draining"
    /\ drainElapsed' = 0
    /\ queue' = <<>>
    /\ UNCHANGED <<config, pending, calls, execOrder>>

\* QueueService.onModuleDestroy(), up to the await.
OnModuleDestroy ==
    /\ shutdownPc = "idle"
    /\ isShuttingDown' = TRUE
    /\ shutdownPc' = "draining"
    /\ drainElapsed' = 0
    /\ UNCHANGED <<config, queue, pending, calls, execOrder>>

\* Variant of the end of onModuleDestroy that reopens admission.
ShutdownCompleteResetsFlag ==
    /\ shutdownPc = "draining"
    /\ Len(queue) = 0
    /\ pending = 0
    /\ shutdownPc' = "complete"
    /\ isShuttingDown' = FALSE
    /\ UNCHANGED <<config, drainElapsed, queue, pending, calls, execOrder>>

\* PQueue.onIdle() resolves and onModuleDestroy() returns.
ShutdownComplete ==
    /\ shutdownPc = "draining"
    /\ Len(queue) = 0
    /\ pending = 0
    /\ shutdownPc' = "complete"
    /\ UNCHANGED <<config, isShuttingDown, drainElapsed, queue, pending, calls, execOrder>>

\* One unit of time passes.
TimerDue(c) ==
    \/ c.reqTimer = "armed" /\ c.reqLeft = 0
    \/ c.q = "running" /\ c.jobLeft = 0

ClockRunning(c) == c.reqTimer = "armed" \/ c.q = "running"

Tick ==
    /\ \E j \in Ids : ClockRunning(calls[j])
    /\ \A j \in Ids : ~TimerDue(calls[j])
    /\ ~(shutdownPc = "draining" /\ Len(queue) = 0 /\ pending = 0)
    /\ calls' = [j \in Ids |->
                   [calls[j] EXCEPT
                      !.reqLeft = IF calls[j].reqTimer = "armed" THEN @ - 1 ELSE @,
                      !.jobLeft = IF calls[j].q = "running" THEN @ - 1 ELSE @]]
    /\ drainElapsed' = IF shutdownPc = "draining" /\ drainElapsed <= ShutdownTimeout
                       THEN drainElapsed + 1 ELSE drainElapsed
    /\ UNCHANGED <<config, isShuttingDown, shutdownPc, queue, pending, execOrder>>

Next ==
    \/ \E p \in Priorities : Add(p)
    \/ \E j \in 1..MaxCalls : \E ok \in BOOLEAN : WorkFinish(j, ok)
    \/ \E j \in 1..MaxCalls : JobTimeoutFire(j)
    \/ \E j \in 1..MaxCalls : RequestTimeoutFire(j)
    \/ OnModuleDestroy
    \/ ShutdownComplete
    \/ Tick

Spec == Init /\ [][Next]_vars

TypeOK ==
    /\ concurrency \in 1..MaxConcurrency
    /\ pending \in 0..concurrency
    /\ pending = Cardinality({j \in Ids : calls[j].q = "running"})
    /\ \A i \in 1..Len(queue) : calls[queue[i]].q = "waiting"

\* ------------------------------------------------ ImageProcessorService
\* An optional value is a set of at most one element; {} is undefined.
Undefined == {}
Some(v) == {v}
Get(o) == CHOOSE v \in o : TRUE

\* o ?? d
OrElse(o, d) == IF o = Undefined THEN d ELSE Get(o)

\* JavaScript truthiness of an optional number, of an optional boolean and
\* of an optional string.
TruthyNumber(o) == o # Undefined /\ 0 \notin o
TruthyBoolean(o) == TRUE \in o
TruthyString(o) == o # Undefined /\ "" \notin o

\* ResizeDto: the least dimension it accepts.
MinDimension == 1

\* The formats of the switch in applyOutputFormat.
SupportedFormats == {"webp", "avif", "jpeg", "png", "gif", "tiff", "raw"}

\* Formats a caller may name: the supported ones and one that is not.
Formats == SupportedFormats \cup {"invalid"}

\* Two of the values of DefaultImageFormat; stripMetadata and autoOrient are
\* fixed by the configuration.
DefaultsSet ==
    {[format |-> f, stripMetadata |-> FALSE, autoOrient |-> TRUE] : f \in {"webp", "jpeg"}}

MimeTypes ==
    {[type |-> "image", subtype |-> "png"],
     [type |-> "application", subtype |-> "octet-stream"],
     [type |-> "text", subtype |-> "plain"]}

Optional(S) == {Undefined} \cup {Some(v) : v \in S}

\* ResizeDto: fit, withoutEnlargement and position are left to their
\* defaults here.
ResizeDtos ==
    [maxDimension : Optional({MinDimension}),
     width : Optional({MinDimension}),
     height : Optional({MinDimension}),
     fit : {Undefined},
     withoutEnlargement : {Undefined},
     position : {Undefined}]

\* ExtractDto: the region of one pixel at the origin.
ExtractDtos ==
    {[left |-> 0, top |-> 0, width |-> MinDimension, height |-> MinDimension]}

\* WatermarkDto: every field is optional; opacity is in hundredths.
WatermarkDtos ==
    {[position |-> Undefined, opacity |-> Undefined, scale |-> Undefined,
      mode |-> Some("single"), spacing |-> Undefined],
     [position |-> Undefined, opacity |-> Undefined, scale |-> Some(25),
      mode |-> Some("tile"), spacing |-> Undefined]}

TransformDtos ==
    [autoOrient : Optional(BOOLEAN),
     crop : Optional(ExtractDtos),
     resize : Optional(ResizeDtos),
     flip : Optional({TRUE}),
     flop : Optional({TRUE}),
     rotate : Optional({0}),
     flatten : Optional({"", "#ffffff"}),
     watermark : Optional(WatermarkDtos)]

OutputDtos ==
    [format : Optional(Formats), stripMetadata : Optional({TRUE})]

ArgsSet ==
    [mimeType : MimeTypes,
     transform : Optional(TransformDtos),
     output : Optional(OutputDtos),
     watermark : Optional({"overlay"})]

BadRequestException(msg) == [type |-> "BadRequestException", message |-> msg]
Error(msg) == [type |-> "Error", message |-> msg]

\* The MIME test of processStream: image/*, or application/octet-stream.
IsAcceptedMime(m) ==
    m.type = "image" \/ (m.type = "application" /\ m.subtype = "octet-stream")

\* The synchronous part of processStream works on the record
\* [pipeline, codecLog, thrown, wm].
\* sharp(...): a new instance replaces the one held in `pipeline`.
NewSharp(st, input) ==
    [st EXCEPT !.pipeline = [NoPipeline EXCEPT !.input = input],
               !.codecLog = Append(@, "sharp")]

\* An instruction issued on the sharp instance.
Issue(st, op) ==
    [st EXCEPT !.pipeline.instr = Append(@, op), !.codecLog = Append(@, op)]

IssueIf(cond, st, op) == IF cond THEN Issue(st, op) ELSE st

\* A codec call that is not an instruction on the instance.
Call(st, op) == [st EXCEPT !.codecLog = Append(@, op)]

Throw(st, e) == [st EXCEPT !.thrown = e]

\* Variant of the resize block whose conflict test looks at width only.
ApplyResizeWidthOnly(st, resize) ==
    IF TruthyNumber(resize.maxDimension) /\ TruthyNumber(resize.width)
    THEN Throw(st, BadRequestException("Cannot use maxDimension together with width/height"))
    ELSE IF TruthyNumber(resize.maxDimension)
    THEN Issue(st, "resize")
    ELSE IF TruthyNumber(resize.width) \/ TruthyNumber(resize.height)
    THEN Issue(st, "resize")
    ELSE st

\* The resize block of applyTransformations.
ApplyResize(st, resize) ==
    IF TruthyNumber(resize.maxDimension)
          /\ (TruthyNumber(resize.width) \/ TruthyNumber(resize.height))
    THEN Throw(st, BadRequestException("Cannot use maxDimension together with width/height"))
    ELSE IF TruthyNumber(resize.maxDimension)
    THEN Issue(st, "resize")
    ELSE IF TruthyNumber(resize.width) \/ TruthyNumber(resize.height)
    THEN Issue(st, "resize")
    ELSE st

\* Variant of applyTransformations that issues the explicit rotation before
\* the mirroring.
ApplyTransformationsRotateFirst(st, transform, d) ==
    IF transform = Undefined
    THEN IssueIf(d.autoOrient, st, "rotate()")
    ELSE LET t == Get(transform)
             s1 == IssueIf(OrElse(t.autoOrient, d.autoOrient), st, "rotate()")
             s2 == IssueIf(t.crop # Undefined, s1, "extract")
             s3 == IF t.resize # Undefined THEN ApplyResize(s2, Get(t.resize)) ELSE s2
             s4 == IssueIf(t.rotate # Undefined, s3, "rotate(angle)")
             s5 == IssueIf(TruthyBoolean(t.flip), s4, "flip")
             s6 == IssueIf(TruthyBoolean(t.flop), s5, "flop")
             s7 == IssueIf(TruthyString(t.flatten), s6, "flatten")
         IN  IF s3.thrown # NoError THEN s3 ELSE s7

\* applyTransformations(pipeline, transform)
ApplyTransformations(st, transform, d) ==
    IF transform = Undefined
    THEN IssueIf(d.autoOrient, st, "rotate()")
    ELSE LET t == Get(transform)
             s1 == IssueIf(OrElse(t.autoOrient, d.autoOrient), st, "rotate()")
             s2 == IssueIf(t.crop # Undefined, s1, "extract")
             s3 == IF t.resize # Undefined THEN ApplyResize(s2, Get(t.resize)) ELSE s2
             s4 == IssueIf(TruthyBoolean(t.flip), s3, "flip")
             s5 == IssueIf(TruthyBoolean(t.flop), s4, "flop")
             s6 == IssueIf(t.rotate # Undefined, s5, "rotate(angle)")
             s7 == IssueIf(TruthyString(t.flatten), s6, "flatten")
         IN  IF s3.thrown # NoError THEN s3 ELSE s7

\* output?.format ?? this.defaults.format
FormatOf(output, d) ==
    IF output = Undefined THEN d.format ELSE OrElse(Get(output).format, d.format)

StripMetadataOf(output, d) ==
    IF output = Undefined THEN d.stripMetadata
    ELSE OrElse(Get(output).stripMetadata, d.stripMetadata)

\* applyOutputFormat(pipeline, output)
ApplyOutputFormat(st, output, d) ==
    LET format == FormatOf(output, d)
        s1 == IssueIf(~StripMetadataOf(output, d), st, "withMetadata")
    IN  IF format \in SupportedFormats
        THEN Issue(s1, format)
        ELSE Throw(s1, BadRequestException("Unsupported format: " \o format))

\* Variant of the test of the watermark branch that looks at the overlay
\* file only.
WatermarkRequestedFileOnly(a) ==
    a.watermark # Undefined

\* watermark && transform?.watermark
WatermarkRequested(a) ==
    /\ a.watermark # Undefined
    /\ a.transform # Undefined
    /\ Get(a.transform).watermark # Undefined

ResultMime(format) ==
    IF format = "raw" THEN [type |-> "application", subtype |-> "octet-stream"]
    ELSE [type |-> "image", subtype |-> format]

\* ------------------------------------------------------------ watermark
Min2(a, b) == IF a <= b THEN a ELSE b
Max2(a, b) == IF a >= b THEN a ELSE b

\* Math.round(n / d) and Math.ceil(n / d) for n >= 0 and d > 0.
JsRound(n, d) == (2 * n + d) \div (2 * d)
JsCeil(n, d) == (n + d - 1) \div d

\* config.scale ?? 10
DefaultScale == 10

\* pipeline.metadata(): sharp reads it from the header of the input of the
\* instance; the instructions issued on the instance play no part in it.
Metadata(p) == IF p.input = "buffer" THEN files.image ELSE Size(0, 0)

\* The numbers of scaleWatermark are IEEE 754 doubles: a significand of
\* DoubleBits bits, every operation yielding the double nearest to its exact
\* result, a tie going to the even significand.
DoubleBits == 53

RECURSIVE Pow2(_)
\* 2^n, and 1 for a negative n.
Pow2(n) == IF n <= 0 THEN 1 ELSE 2 * Pow2(n - 1)

RECURSIVE Pow2Mod(_, _)
\* 2^n modulo m
Pow2Mod(n, m) == IF n <= 0 THEN 1 % m ELSE (2 * Pow2Mod(n - 1, m)) % m

RECURSIVE Exponent(_, _)
\* The binary exponent of n / d, for n > 0 and d > 0: the e with
\* 2^e <= n / d < 2^(e + 1).
Exponent(n, d) ==
    IF n >= 2 * d THEN Exponent(n, 2 * d) + 1
    ELSE IF n < d THEN Exponent(2 * n, d) - 1
    ELSE 0

\* scalePercent / 100 as a double is M / 2^p, where p places the
\* significand M in DoubleBits bits and M is the integer nearest to
\* scalePercent * 2^p / 100.  PercentRemainder is scalePercent * 2^p - 100 * M:
\* positive when the double is below the exact quotient, negative when it is
\* above, 0 when the quotient is a double.  (No tie occurs: 100 * M + 50 is
\* not a multiple of 4.)
PercentPlaces(scalePercent) == DoubleBits - 1 - Exponent(scalePercent, 100)

PercentRemainder(scalePercent) ==
    LET r == (scalePercent * Pow2Mod(PercentPlaces(scalePercent), 100)) % 100
    IN  IF r > 50 THEN r - 100 ELSE r

\* The exponent of the doubles directly below k + 1/2.
ExponentBelowHalf(k) == IF k = 0 THEN -2 ELSE Exponent(k, 1)

\* Math.round(Math.min(imageWidth, imageHeight) * (scalePercent / 100)) in
\* scaleWatermark.  The product of the side and the double of scalePercent /
\* 100 is side * scalePercent / 100 - side * PercentRemainder / (100 * 2^p),
\* rounded to a double.  It rounds as the exact product does, except when the
\* exact product is k + 1/2: the double of the product is then below k + 1/2,
\* and Math.round gives k, when the product is more than half a step of the
\* doubles below k + 1/2, that is 2^(e - DoubleBits), short of it.
ScaleTarget(scalePercent, imageWidth, imageHeight) ==
    LET side == Min2(imageWidth, imageHeight)
        n == side * scalePercent
        k == n \div 100
        x == ExponentBelowHalf(k) - Exponent(scalePercent, 100) - 1
    IN  IF n % 100 = 50
           /\ side * PercentRemainder(scalePercent) * Pow2(-x) > 100 * Pow2(x)
        THEN k
        ELSE JsRound(n, 100)

\* sharp's resize({width: t, height: t, fit: 'inside', withoutEnlargement:
\* true}): the image is kept when it fits in t x t, and is otherwise reduced
\* in proportion until its larger side is t.
ResizeInside(size, t) ==
    IF size.width <= t /\ size.height <= t
    THEN size
    ELSE IF size.width >= size.height
    THEN Size(t, Max2(1, JsRound(size.height * t, size.width)))
    ELSE Size(Max2(1, JsRound(size.width * t, size.height)), t)

\* scaleWatermark(watermarkBuffer, scalePercent, imageWidth, imageHeight,
\* opacity), for a target of at least one pixel: the scaled overlay.
ScaleWatermark(overlay, scalePercent, imageWidth, imageHeight, opacity) ==
    LET scaled == ResizeInside(overlay, ScaleTarget(scalePercent, imageWidth, imageHeight))
    IN  [width |-> scaled.width, height |-> scaled.height,
         opacity |-> IF opacity # Undefined /\ Get(opacity) < 100 THEN Get(opacity) ELSE 100]

\* createSingleWatermark(watermarkBuffer, config, imageWidth, imageHeight)
CreateSingleWatermark(overlay, watermarkConfig, imageWidth, imageHeight) ==
    [input |-> ScaleWatermark(overlay, OrElse(watermarkConfig.scale, DefaultScale),
                              imageWidth, imageHeight, watermarkConfig.opacity),
     gravity |-> Some(OrElse(watermarkConfig.position, "southeast")),
     top |-> Undefined,
     left |-> Undefined]

\* Variant of createTiledWatermark that rounds the number of columns and of
\* rows down.
CreateTiledWatermarkWholeTiles(overlay, watermarkConfig, imageWidth, imageHeight) ==
    LET scaledWatermark == ScaleWatermark(overlay, OrElse(watermarkConfig.scale, DefaultScale),
                                          imageWidth, imageHeight, watermarkConfig.opacity)
        spacing == OrElse(watermarkConfig.spacing, 0)
        cols == imageWidth \div (scaledWatermark.width + spacing)
        rows == imageHeight \div (scaledWatermark.height + spacing)
    IN  [i \in 1..(rows * cols) |->
            [input |-> scaledWatermark,
             gravity |-> Undefined,
             top |-> Some(((i - 1) \div cols) * (scaledWatermark.height + spacing)),
             left |-> Some(((i - 1) % cols) * (scaledWatermark.width + spacing))]]

\* createTiledWatermark(watermarkBuffer, config, imageWidth, imageHeight):
\* the composites in the order of the two loops, rows outside.
CreateTiledWatermark(overlay, watermarkConfig, imageWidth, imageHeight) ==
    LET scaledWatermark == ScaleWatermark(overlay, OrElse(watermarkConfig.scale, DefaultScale),
                                          imageWidth, imageHeight, watermarkConfig.opacity)
        spacing == OrElse(watermarkConfig.spacing, 0)
        cols == JsCeil(imageWidth, scaledWatermark.width + spacing)
        rows == JsCeil(imageHeight, scaledWatermark.height + spacing)
    IN  [i \in 1..(rows * cols) |->
            [input |-> scaledWatermark,
             gravity |-> Undefined,
             top |-> Some(((i - 1) \div cols) * (scaledWatermark.height + spacing)),
             left |-> Some(((i - 1) % cols) * (scaledWatermark.width + spacing))]]

\* applyWatermark(pipeline, watermarkBuffer, watermarkConfig, metadata): the
\* composites handed to pipeline.composite.
ApplyWatermark(overlay, watermarkConfig, metadata) ==
    IF watermarkConfig.mode = Some("tile")
    THEN CreateTiledWatermark(overlay, watermarkConfig, metadata.width, metadata.height)
    ELSE <<CreateSingleWatermark(overlay, watermarkConfig, metadata.width, metadata.height)>>

\* transform.watermark of the request
WatermarkConfig == Get(Get(args.transform).watermark)

\* processStream throws e.
Threw(st, e) ==
    /\ pc' = "threw"
    /\ result' = [NoResult EXCEPT !.kind = "threw", !.error = e]
    /\ pipeline' = st.pipeline
    /\ codecLog' = st.codecLog
    /\ wm' = st.wm

\* processStream suspends at an await.
Await(st, at) ==
    /\ pc' = at
    /\ result' = result
    /\ pipeline' = st.pipeline
    /\ codecLog' = st.codecLog
    /\ wm' = st.wm

\* processStream from applyOutputFormat to the call of toBuffer.
EncodeFrom(st) ==
    LET s1 == ApplyOutputFormat(st, args.output, defaults)
    IN  IF s1.thrown # NoError
        THEN Threw(s1, s1.thrown)
        ELSE IF signal = "aborted"
        THEN Threw(s1, Error("Request aborted"))
        ELSE Await(Call(s1, "toBuffer"), "toBuffer")

Here == [pipeline |-> pipeline, codecLog |-> codecLog, thrown |-> NoError, wm |-> wm]

\* processStream from its entry to its first await.
ProcessStream ==
    /\ pc = "start"
    /\ IF ~IsAcceptedMime(args.mimeType)
       THEN Threw(Here, BadRequestException(
                "Invalid MIME type: " \o args.mimeType.type \o "/" \o args.mimeType.subtype))
       ELSE LET s1 == ApplyTransformations(NewSharp(Here, "none"), args.transform, defaults)
            IN  IF s1.thrown # NoError
                THEN Threw(s1, s1.thrown)
                ELSE IF WatermarkRequested(args)
                THEN Await(Call(s1, "streamToBuffer"), "streamToBuffer")
                ELSE EncodeFrom(Call([s1 EXCEPT !.pipeline.input = "stream"], "pipe"))
    /\ UNCHANGED <<queueVars, caller, args, defaults, signal, files>>

\* streamToBuffer settles: the pipeline is rebuilt on the buffered input and
\* its metadata is requested.
StreamToBufferDone(ok) ==
    /\ pc = "streamToBuffer"
    /\ IF ~ok
       THEN Threw(Here, Error("stream"))
       ELSE LET s1 == ApplyTransformations(NewSharp(Here, "buffer"), args.transform, defaults)
            IN  IF s1.thrown # NoError
                THEN Threw(s1, s1.thrown)
                ELSE Await(Call(s1, "metadata"), "metadata")
    /\ UNCHANGED <<queueVars, caller, args, defaults, signal, files>>

\* pipeline.metadata() settles: applyWatermark takes the width and height of
\* the metadata as the size of the base and scales the overlay; sharp's
\* resize rejects a target that is not a positive integer.
MetadataDone(ok) ==
    /\ pc = "metadata"
    /\ IF ~ok
       THEN Threw(Here, Error("codec"))
       ELSE LET metadata == Metadata(pipeline)
                s1 == Call([Here EXCEPT !.wm.base = Some(metadata)], "scaleWatermark")
            IN  IF ScaleTarget(OrElse(WatermarkConfig.scale, DefaultScale),
                               metadata.width, metadata.height) < 1
                THEN Threw(s1, Error("Expected positive integer for width but received 0 of type number"))
                ELSE Await(s1, "applyWatermark")
    /\ UNCHANGED <<queueVars, caller, args, defaults, signal, files>>

\* applyWatermark composites the overlays on the instance, and processStream
\* goes on to the output format.
CompositeFrom(st) ==
    LET composites == ApplyWatermark(files.overlay, WatermarkConfig, Get(wm.base))
    IN  EncodeFrom(Issue([st EXCEPT !.wm.composites = composites], "composite"))

\* The toBuffer() of scaleWatermark settles: the overlay is scaled.  In
\* single mode applyWatermark composites it; in tile mode
\* createTiledWatermark builds an instance on the scaled overlay and awaits
\* its metadata.
ApplyWatermarkDone(ok) ==
    /\ pc = "applyWatermark"
    /\ IF ~ok
       THEN Threw(Here, Error("codec"))
       ELSE IF WatermarkConfig.mode = Some("tile")
       THEN Await(Call(Call(Here, "sharp"), "metadata"), "tileMetadata")
       ELSE CompositeFrom(Here)
    /\ UNCHANGED <<queueVars, caller, args, defaults, signal, files>>

\* The metadata() of the scaled overlay settles: createTiledWatermark lays
\* out the grid and applyWatermark composites it.
TileMetadataDone(ok) ==
    /\ pc = "tileMetadata"
    /\ IF ~ok
       THEN Threw(Here, Error("codec"))
       ELSE CompositeFrom(Here)
    /\ UNCHANGED <<queueVars, caller, args, defaults, signal, files>>

\* pipeline.toBuffer() settles.  destroy(), called by the abort listener,
\* does not settle it: the encoder may still deliver its result.
ToBufferDone(ok) ==
    /\ pc = "toBuffer"
    /\ IF ~ok
       THEN Threw(Here, Error("codec"))
       ELSE LET format == FormatOf(args.output, defaults)
            IN  /\ pc' = "returned"
                /\ result' = [NoResult EXCEPT !.kind = "returned", !.format = format,
                                              !.mimeType = ResultMime(format)]
                /\ UNCHANGED <<pipeline, codecLog, wm>>
    /\ UNCHANGED <<queueVars, caller, args, defaults, signal, files>>

\* The files of the requests followed when sizes are not varied: an input
\* image of 200 x 200 and an overlay of 50 x 50.
PipeFiles == [image |-> Size(200, 200), overlay |-> Size(50, 50)]

\* processStream called on one request, without a signal.
PipeInit ==
    /\ concurrency = 1
    /\ maxQueueSize = 0
    /\ isShuttingDown = FALSE
    /\ shutdownPc = "idle"
    /\ drainElapsed = 0
    /\ queue = <<>>
    /\ pending = 0
    /\ calls = <<>>
    /\ execOrder = <<>>
    /\ args \in ArgsSet
    /\ defaults \in DefaultsSet
    /\ signal = "none"
    /\ pc = "start"
    /\ pipeline = NoPipeline
    /\ codecLog = <<>>
    /\ result = NoResult
    /\ files = PipeFiles
    /\ wm = NoWatermark
    /\ CallerIdle

PipeNext ==
    \/ ProcessStream
    \/ \E ok \in BOOLEAN : StreamToBufferDone(ok)
    \/ \E ok \in BOOLEAN : MetadataDone(ok)
    \/ \E ok \in BOOLEAN : ApplyWatermarkDone(ok)
    \/ \E ok \in BOOLEAN : TileMetadataDone(ok)
    \/ \E ok \in BOOLEAN : ToBufferDone(ok)

PipeSpec == PipeInit /\ [][PipeNext]_vars

\* -------------------------------------------- processStream with a watermark
\* processStream called on requests with an overlay and a watermark spec,
\* over images, overlays, resizes and watermark specs of several sizes.
\* Specification WmSpec.
MaxTiles == 16           \* largest tile grid explored, in placements

ImageSizes == {4, 25, 200, 1000}
OverlaySizes == {Size(50, 50), Size(500, 500), Size(300, 100)}
Scales == {1, 20, 25, 58, 100}
ResizeTargets == {100}

WmWatermarkDtos ==
    [position : Optional({"center"}),
     opacity : Optional({50}),
     scale : Optional(Scales),
     mode : Optional({"single", "tile"}),
     spacing : Optional({0, 10})]

\* A resize to width x height, with the default fit 'cover', and a resize to
\* maxDimension, with the default fit 'inside'; both with the default
\* withoutEnlargement.
WmResizeDtos ==
    {[maxDimension |-> Undefined, width |-> Some(w), height |-> Some(h),
      fit |-> Undefined, withoutEnlargement |-> Undefined, position |-> Undefined] :
        w \in ResizeTargets, h \in ResizeTargets}
    \cup
    {[maxDimension |-> Some(m), width |-> Undefined, height |-> Undefined,
      fit |-> Undefined, withoutEnlargement |-> Undefined, position |-> Undefined] :
        m \in ResizeTargets}

WmArgs ==
    {[mimeType |-> [type |-> "image", subtype |-> "png"],
      transform |-> Some([autoOrient |-> Undefined, crop |-> Undefined, resize |-> r,
                          flip |-> Undefined, flop |-> Undefined, rotate |-> Undefined,
                          flatten |-> Undefined, watermark |-> Some(w)]),
      output |-> Undefined,
      watermark |-> Some("overlay")] :
        r \in Optional(WmResizeDtos), w \in WmWatermarkDtos}

WmFiles ==
    {[image |-> Size(w, h), overlay |-> o] :
        w \in ImageSizes, h \in ImageSizes, o \in OverlaySizes}

\* The number of placements a request leads to.
Placements(a, f) ==
    LET watermarkConfig == Get(Get(a.transform).watermark)
    IN  IF ScaleTarget(OrElse(watermarkConfig.scale, DefaultScale),
                       f.image.width, f.image.height) < 1
        THEN 0
        ELSE Len(ApplyWatermark(f.overlay, watermarkConfig, f.image))

WmInit ==
    /\ concurrency = 1
    /\ maxQueueSize = 0
    /\ isShuttingDown = FALSE
    /\ shutdownPc = "idle"
    /\ drainElapsed = 0
    /\ queue = <<>>
    /\ pending = 0
    /\ calls = <<>>
    /\ execOrder = <<>>
    /\ args \in WmArgs
    /\ defaults \in {d \in DefaultsSet : d.format = "webp"}
    /\ signal = "none"
    /\ pc = "start"
    /\ pipeline = NoPipeline
    /\ codecLog = <<>>
    /\ result = NoResult
    /\ files \in {f \in WmFiles : Placements(args, f) <= MaxTiles}
    /\ wm = NoWatermark
    /\ CallerIdle

WmSpec == WmInit /\ [][PipeNext]_vars

\* ---------------------------------------- ImageProcessingController.process
\* One request handled by process() is followed: the call of add() it makes
\* is the call number Watched, made after OtherCalls calls of other
\* requests, whose work functions are environment processes as in Spec.
OtherCalls == 1
Watched == OtherCalls + 1

\* The requests followed: with and without a watermark spec, with and
\* without a watermark file.
CtlArgs ==
    {a \in ArgsSet :
        /\ a.mimeType = [type |-> "image", subtype |-> "png"]
        /\ a.output = Undefined
        /\ \E t \in a.transform :
              /\ t.autoOrient = Undefined /\ t.crop = Undefined /\ t.resize = Undefined
              /\ t.flip = Undefined /\ t.flop = Undefined /\ t.rotate = Undefined
              /\ t.flatten = Undefined}

\* process() has read the parts of the request: the optional main file, the
\* optional watermark file and the validated params.  The client may have closed the
\* connection while they were read: no close listener was registered yet,
\* and the event is lost.
CtlInit ==
    /\ concurrency = 1
    /\ maxQueueSize = 0
    /\ isShuttingDown = FALSE
    /\ shutdownPc = "idle"
    /\ drainElapsed = 0
    /\ queue = <<>>
    /\ pending = 0
    /\ calls = <<>>
    /\ execOrder = <<>>
    /\ args \in CtlArgs
    /\ defaults \in {d \in DefaultsSet : d.format = "webp"}
    /\ signal = "live"
    /\ pc = "idle"
    /\ pipeline = NoPipeline
    /\ codecLog = <<>>
    /\ result = NoResult
    /\ files = PipeFiles
    /\ wm = NoWatermark
    /\ resp \in {NoResponse, [NoResponse EXCEPT !.raw = "disconnected"]}
    /\ wpc = "entry"
    /\ workError = NoError
    /\ cpc = "entry"
    /\ mainFileData \in {NoMainFile, MainFile}

AddCalled == Len(calls) >= Watched

\* A continuation of the request is ready to run: process() after the parts
\* were read, the work function just invoked, processStream just called, the
\* work function after processStream or finished() settled or at its end, or
\* process() after add() settled.
Runnable ==
    \/ cpc = "entry"
    \/ AddCalled /\ calls[Watched].work = "active" /\ wpc = "entry"
    \/ pc = "start"
    \/ wpc = "processStream" /\ pc \in {"returned", "threw"}
    \/ wpc = "finished" /\ resp.raw # "ended"
    \/ AddCalled /\ calls[Watched].work = "active" /\ wpc \in {"return", "throw"}
    \/ AddCalled /\ cpc = "handler" /\ calls[Watched].res # "pending"

\* Continuations run to completion: an event of the environment (a call of
\* add(), a timer, a settled codec call, a connection event) is handled only
\* when no continuation is ready.
Event(A) == ~Runnable /\ A

\* What process() answers when it throws before add() is called: the
\* exception goes to the framework, which writes the error response if the
\* connection is still open.
Reject(e) ==
    /\ cpc' = "threw"
    /\ resp' = IF resp.raw = "open"
               THEN [resp EXCEPT !.body = "error", !.error = e, !.raw = "ended"]
               ELSE [resp EXCEPT !.error = e]

\* Variant of the checks of process() that lets a watermark spec without a
\* watermark file through.
ProcessValidateNoFileCheck ==
    /\ cpc = "entry"
    /\ IF mainFileData = NoMainFile
       THEN Reject(BadRequestException("No file uploaded"))
       ELSE /\ cpc' = "handler"
            /\ resp' = resp
    /\ UNCHANGED <<queueVars, pipe, wpc, workError, mainFileData>>

\* process() after the parts were read: a request without a main file is
\* rejected, then a watermark spec without a watermark file; otherwise the
\* AbortController is created, the close listener registered, and process()
\* is about to call add().
ProcessValidate ==
    /\ cpc = "entry"
    /\ IF mainFileData = NoMainFile
       THEN Reject(BadRequestException("No file uploaded"))
       ELSE IF (\E t \in args.transform : t.watermark # Undefined) /\ args.watermark = Undefined
       THEN Reject(BadRequestException(
                "Watermark file is required when watermark config is provided"))
       ELSE /\ cpc' = "handler"
            /\ resp' = resp
    /\ UNCHANGED <<queueVars, pipe, wpc, workError, mainFileData>>

\* add() is called: by other requests first, then by process().
Admit(p) ==
    /\ Len(calls) < Watched
    /\ Len(calls) = OtherCalls => cpc = "handler"
    /\ Add(p)

\* The work functions of the other requests are environment processes.
OtherWorkFinish(j, ok) ==
    /\ j < Watched
    /\ WorkFinish(j, ok)

\* Variant of the work function that does not look at the signal before it
\* calls processStream.
WorkEntryNoSignalCheck ==
    /\ AddCalled
    /\ calls[Watched].work = "active"
    /\ wpc = "entry"
    /\ wpc' = "processStream" /\ workError' = workError /\ pc' = "start"
    /\ UNCHANGED <<queueVars, args, defaults, signal, pipeline, codecLog, result, files, wm, resp, cpc, mainFileData>>

\* The work function of process(), from its invocation by the queue to the
\* call of processStream.
WorkEntry ==
    /\ AddCalled
    /\ calls[Watched].work = "active"
    /\ wpc = "entry"
    /\ IF signal = "aborted"
       THEN wpc' = "throw" /\ workError' = Error("Request aborted") /\ pc' = pc
       ELSE wpc' = "processStream" /\ workError' = workError /\ pc' = "start"
    /\ UNCHANGED <<queueVars, args, defaults, signal, pipeline, codecLog, result, files, wm, resp, cpc, mainFileData>>

\* processStream has returned: the work function sets the headers, calls
\* res.send(result.buffer) and awaits finished(res.raw).  On a response that
\* is still open the result is written and the response ended.
WorkSend ==
    /\ wpc = "processStream"
    /\ pc = "returned"
    /\ wpc' = "finished"
    /\ resp' = IF resp.raw = "open"
               THEN [resp EXCEPT !.sendCalled = TRUE, !.body = "image", !.raw = "ended"]
               ELSE [resp EXCEPT !.sendCalled = TRUE]
    /\ UNCHANGED <<queueVars, pipe, workError, cpc, mainFileData>>

\* processStream has thrown: the work function throws the same error.
WorkRethrow ==
    /\ wpc = "processStream"
    /\ pc = "threw"
    /\ wpc' = "throw"
    /\ workError' = result.error
    /\ UNCHANGED <<queueVars, pipe, resp, cpc, mainFileData>>

\* The response has been flushed to the client.
ResponseFlushed ==
    /\ resp.raw = "ended"
    /\ resp' = [resp EXCEPT !.raw = "finished"]
    /\ UNCHANGED <<queueVars, pipe, wpc, workError, cpc, mainFileData>>

\* finished(res.raw) settles: it resolves once the response is finished and
\* rejects when the connection was closed after res.send and before that.
\* On a connection that was already closed when res.send was called, it
\* depends on the HTTP layer whether the response counts as finished: both
\* outcomes are followed.
FinishedSettles(ok) ==
    /\ wpc = "finished"
    /\ IF ok THEN resp.raw \in {"finished", "disconnected"}
             ELSE resp.raw \in {"cut", "disconnected"}
    /\ wpc' = IF ok THEN "return" ELSE "throw"
    /\ workError' = IF ok THEN workError ELSE Error("Premature close")
    /\ UNCHANGED <<queueVars, pipe, resp, cpc, mainFileData>>

\* The work function of process() returns or throws, which p-queue and add()
\* handle as for any work function.
WatchedWorkFinish ==
    /\ AddCalled
    /\ wpc \in {"return", "throw"}
    /\ WorkFinish(Watched, wpc = "return")

\* The client closes the connection.  When process() has registered its
\* close listener (it does so in the same turn in which it calls add()), the
\* listener aborts the controller unless the response was ended, and the
\* abort listener of processStream, registered before toBuffer, destroys the
\* sharp instance.  When process() threw before that, no listener exists:
\* the error response that was written and not yet flushed is cut, and
\* nothing else changes.
ClientDisconnect ==
    /\ AddCalled \/ cpc = "threw"
    /\ resp.raw \in {"open", "ended"}
    /\ IF resp.raw = "open"
       THEN /\ resp' = [resp EXCEPT !.raw = "disconnected"]
            /\ signal' = IF AddCalled THEN "aborted" ELSE signal
            /\ pipeline' = IF AddCalled /\ pc = "toBuffer" /\ signal = "live"
                           THEN [pipeline EXCEPT !.destroyed = TRUE] ELSE pipeline
       ELSE /\ resp' = [resp EXCEPT !.raw = "cut"]
            /\ UNCHANGED <<signal, pipeline>>
    /\ UNCHANGED <<queueVars, args, defaults, pc, codecLog, result, files, wm, wpc, workError, cpc, mainFileData>>

\* The exceptions of the queue: RequestTimeoutException and
\* ServiceUnavailableException of the framework, HttpException with the status
\* Too Many Requests, and the TimeoutError of p-queue's per-job timeout.
RequestTimeoutException(msg) == [type |-> "RequestTimeoutException", message |-> msg]
ServiceUnavailableException(msg) == [type |-> "ServiceUnavailableException", message |-> msg]
HttpException(msg) == [type |-> "HttpException", message |-> msg]
TimeoutError(msg) == [type |-> "TimeoutError", message |-> msg]

\* The error that add() rejects call c with when the queue, and not the work
\* function, settles it.
QueueError(c) ==
    CASE c.res = "ServiceUnavailable" ->
            ServiceUnavailableException("Service is shutting down, rejecting new tasks")
      [] c.res = "Overloaded" ->
            HttpException("Queue is overloaded")
      [] c.res = "RequestTimeout" ->
            RequestTimeoutException(
                "Request timeout (queueSize=" \o ToString(c.timedOutAt[1])
                    \o ", pending=" \o ToString(c.timedOutAt[2]) \o ")")
      [] c.res = "JobTimeout" ->
            TimeoutError("Promise timed out after " \o ToString(JobTimeout) \o " milliseconds")
      [] OTHER -> NoError

\* The error add() rejected the call of process() with: the error of the work
\* function, or an error of the queue.
AddError ==
    IF calls[Watched].res = "err" THEN workError ELSE QueueError(calls[Watched])

\* add() has settled and process() continues: it returns when add() resolved,
\* and also, silently, when add() rejected after an abort; otherwise it
\* rethrows and the framework answers with the error.
ProcessContinues ==
    /\ AddCalled
    /\ cpc = "handler"
    /\ calls[Watched].res # "pending"
    /\ IF calls[Watched].res = "ok" \/ signal = "aborted"
       THEN cpc' = "returned" /\ resp' = resp
       ELSE /\ cpc' = "threw"
            /\ resp' = IF resp.raw = "open"
                       THEN [resp EXCEPT !.body = "error", !.error = AddError, !.raw = "ended"]
                       ELSE [resp EXCEPT !.error = AddError]
    /\ UNCHANGED <<queueVars, pipe, wpc, workError, mainFileData>>

CtlNext ==
    \/ \E p \in Priorities : Event(Admit(p))
    \/ \E j \in 1..OtherCalls : \E ok \in BOOLEAN : Event(OtherWorkFinish(j, ok))
    \/ \E j \in 1..Watched : Event(JobTimeoutFire(j))
    \/ \E j \in 1..Watched : Event(RequestTimeoutFire(j))
    \/ Event(Tick)
    \/ \E ok \in BOOLEAN : Event(StreamToBufferDone(ok))
    \/ \E ok \in BOOLEAN : Event(MetadataDone(ok))
    \/ \E ok \in BOOLEAN : Event(ApplyWatermarkDone(ok))
    \/ \E ok \in BOOLEAN : Event(TileMetadataDone(ok))
    \/ \E ok \in BOOLEAN : Event(ToBufferDone(ok))
    \/ Event(ResponseFlushed)
    \/ Event(ClientDisconnect)
    \/ ProcessValidate
    \/ WorkEntry
    \/ ProcessStream
    \/ WorkSend
    \/ WorkRethrow
    \/ \E ok \in BOOLEAN : FinishedSettles(ok)
    \/ WatchedWorkFinish
    \/ ProcessContinues

CtlSpec == CtlInit /\ [][CtlNext]_vars

\* ----------------------------------------------------------- vocabulary
Accepted(c) == c.q # "none"
Started(c) == c.work # "notStarted"
WorkActive == {j \in Ids : calls[j].work = "active"}

\* Position of call j in the execution order (0 when never executed).
Pos(j) ==
    IF \E i \in 1..Len(execOrder) : execOrder[i] = j
    THEN CHOOSE i \in 1..Len(execOrder) : execOrder[i] = j
    ELSE 0

\* a goes before b in a stable sort by (-priority, enqueue sequence).
Better(cs, a, b) ==
    \/ cs[a].prio > cs[b].prio
    \/ cs[a].prio = cs[b].prio /\ a < b

\* The id of the call made by this step, when the step is an add().
IsAddStep == Len(calls') = Len(calls) + 1
NewId == Len(calls) + 1

\* ------------------------------------------------------------------ C1
\* C1: the number of calls whose work function has been invoked by the queue
\* and has not yet finished never exceeds the configured concurrency.
C1_WorkWithinConcurrency ==
    Cardinality(WorkActive) <= concurrency

\* ------------------------------------------------------------------ C2
\* C2 (as stated): with concurrency = 1 the execution order is the stable
\* sort of the admitted calls by (-priority, enqueue sequence): any call
\* executed earlier goes before any call executed later in that sort.
C2_ExecOrderIsGlobalSort ==
    concurrency = 1 =>
        \A i, k \in 1..Len(execOrder) :
            i < k => Better(calls, execOrder[i], execOrder[k])

\* C2 (amended): with concurrency = 1, of two admitted calls that were waiting
\* in the queue at the same time, the one that goes first in the stable sort
\* by (-priority, enqueue sequence) is executed first.
C2_ExecOrderAmongCoWaiting ==
    concurrency = 1 =>
        \A b \in Ids : \A a \in calls[b].coWait :
            IF Better(calls, a, b)
            THEN Started(calls[b]) => Started(calls[a]) /\ Pos(a) < Pos(b)
            ELSE Started(calls[a]) => Started(calls[b]) /\ Pos(b) < Pos(a)

\* Two calls of equal priority and one of higher priority waited together
\* behind a running call and all have been executed.
C2_Witness ==
    /\ concurrency = 1
    /\ \E a, b \in Ids :
          /\ a \in calls[b].coWait
          /\ Started(calls[a]) /\ Started(calls[b])
          /\ calls[a].prio = calls[b].prio

\* ------------------------------------------------------------------ C3
\* C3: for any concurrency, whenever a step starts a call, no call left
\* waiting has a strictly higher priority, and none of the same priority
\* was enqueued earlier.
C3_StartsBestWaiting ==
    [][\A j \in 1..Len(calls') :
          (calls'[j].q = "running" /\ (j \notin Ids \/ calls[j].q = "waiting")) =>
              \A k \in 1..Len(calls') :
                  (k # j /\ calls'[k].q = "waiting") => Better(calls', j, k)]_vars

\* A call that arrived later with a higher priority has been started while
\* an earlier call of lower priority is still waiting.
C3_Witness ==
    \E j, k \in Ids :
        /\ k < j
        /\ k \in calls[j].coWait
        /\ calls[k].q = "waiting"
        /\ Started(calls[j])
        /\ calls[j].prio > calls[k].prio

\* ------------------------------------------------------------------ C4
\* C4: with concurrency = 1, when call 1 blocks the slot while a priority-0
\* call and then a priority-2 call are submitted, the calls are executed in
\* the order blocker, priority 0, priority 2.
C4_ZeroIsHighPriority ==
    ( /\ concurrency = 1
      /\ Len(execOrder) = 3
      /\ calls[3].coWait = {2}
      /\ calls[2].prio = 0
      /\ calls[3].prio = DefaultPriority )
    => execOrder = <<1, 2, 3>>

\* ------------------------------------------------------------------ C5
\* C5 (as stated): with a queue-depth limit configured and no shutdown, an
\* add() made when queued + running = maxQueueSize is rejected Overloaded,
\* and one made when queued + running = maxQueueSize - 1 is accepted.
C5_DepthCountsQueuedPlusRunning ==
    [][(IsAddStep /\ ~isShuttingDown /\ maxQueueSize > 0) =>
          /\ Len(queue) + pending = maxQueueSize => calls'[NewId].res = "Overloaded"
          /\ Len(queue) + pending = maxQueueSize - 1 => Accepted(calls'[NewId])]_vars

\* C5 (amended): the queue-depth limit counts waiting calls only: with a
\* limit configured and no shutdown, an add() made when the number of waiting
\* calls equals maxQueueSize is rejected Overloaded without being enqueued,
\* and one made when it equals maxQueueSize - 1 is accepted, whatever the
\* number of running calls.
C5_DepthCountsQueuedOnly ==
    [][(IsAddStep /\ ~isShuttingDown /\ maxQueueSize > 0) =>
          /\ Len(queue) = maxQueueSize =>
                calls'[NewId].res = "Overloaded" /\ ~Accepted(calls'[NewId])
          /\ Len(queue) = maxQueueSize - 1 =>
                Accepted(calls'[NewId]) /\ calls'[NewId].res = "pending"]_vars

\* An add() was rejected Overloaded and one was accepted while calls were
\* running.
C5_Witness ==
    /\ \E j \in Ids : calls[j].res = "Overloaded"
    /\ Len(queue) = maxQueueSize
    /\ pending > 0

\* ------------------------------------------------------------------ C6
\* C6: once onModuleDestroy has been invoked, admission stays closed: every
\* later add(), during the drain or after it, is rejected with
\* ServiceUnavailable without being enqueued, and the work function of a
\* call rejected that way is never invoked.
C6_RejectAfterShutdown ==
    /\ [][shutdownPc # "idle" =>
            /\ isShuttingDown'
            /\ IsAddStep =>
                  /\ calls'[NewId].res = "ServiceUnavailable"
                  /\ ~Accepted(calls'[NewId])
                  /\ queue' = queue /\ pending' = pending /\ execOrder' = execOrder]_vars
    /\ [](\A j \in Ids : calls[j].res = "ServiceUnavailable" =>
            ~Started(calls[j]) /\ j \notin Range(queue) /\ Pos(j) = 0)

\* An add() was rejected with ServiceUnavailable while the drain was still
\* waiting for a running call.
C6_Witness ==
    /\ shutdownPc = "draining"
    /\ pending > 0
    /\ \E j \in Ids : calls[j].res = "ServiceUnavailable"

\* ------------------------------------------------------------------ C7
\* C7: shutdown neither cancels nor drops an accepted call: during shutdown
\* a waiting call stays in the waiting array until it is started, a call
\* whose work function returns while add() is pending resolves with that
\* result, and when shutdown completes every call that was waiting or
\* running at its invocation (every accepted call) has been executed.
C7_AcceptedJobsStillRun ==
    /\ [][isShuttingDown' =>
            \A j \in Ids :
                /\ calls[j].q = "waiting" =>
                      \/ calls'[j].q = "waiting" /\ j \in Range(queue')
                      \/ calls'[j].q = "running" /\ calls'[j].work = "active"
                /\ (calls[j].q = "running" /\ calls[j].res = "pending"
                        /\ calls'[j].work = "returned") => calls'[j].res = "ok"]_vars
    /\ [](shutdownPc = "complete" =>
            \A j \in Ids : Accepted(calls[j]) => Started(calls[j]))

\* With concurrency 1, shutdown was invoked at least one tick ago while one
\* call was running and another waiting: the running call has since
\* returned and its add() resolved with the result, and the waiting call
\* has just been started in its place.
C7_Witness ==
    /\ concurrency = 1
    /\ shutdownPc = "draining"
    /\ drainElapsed >= 1
    /\ Len(execOrder) >= 2
    /\ LET j == execOrder[Len(execOrder)]
           a == execOrder[Len(execOrder) - 1]
       IN  /\ calls[j].q = "running" /\ calls[j].jobLeft = JobTimeout
           /\ calls[a].work = "returned" /\ calls[a].res = "ok"

\* ------------------------------------------------------------------ C8
\* C8: onModuleDestroy has returned only in states where no call is waiting,
\* none is running, and the work function of every call accepted before
\* shutdown has finished: shutdown-complete never precedes the completion of
\* an accepted job.
C8_CompleteOnlyWhenIdle ==
    shutdownPc = "complete" =>
        /\ queue = <<>>
        /\ pending = 0
        /\ \A j \in Ids : Accepted(calls[j]) => calls[j].work \in {"returned", "threw"}

\* ------------------------------------------------------------------ C9
\* C9: the drain is bounded by the shutdown timeout: onModuleDestroy is never
\* still waiting once more than ShutdownTimeout has passed since it was
\* invoked.
C9_DrainWithinShutdownTimeout ==
    shutdownPc = "draining" => drainElapsed <= ShutdownTimeout

\* ----------------------------------------------------------------- C10
\* C10: the request timer is armed at admission with the full requestTimeout
\* and runs down with every tick while add() is pending, whether the call is
\* waiting or running; time does not pass a due timer, so a pending add() is
\* rejected with RequestTimeout when its time is up; a call whose work
\* function has not produced a result has only a timeout as its outcome, and
\* a call still waiting only the request timeout.
C10_RequestTimeoutFromAdmission ==
    /\ [](\A j \in Ids :
            /\ (Accepted(calls[j]) /\ calls[j].res = "pending") =>
                  calls[j].reqTimer = "armed" /\ calls[j].reqLeft \in 0..RequestTimeout
            /\ (Accepted(calls[j]) /\ calls[j].work \in {"notStarted", "active"}) =>
                  calls[j].res \in {"pending", "JobTimeout", "RequestTimeout"}
            /\ calls[j].q = "waiting" => calls[j].res \in {"pending", "RequestTimeout"})
    /\ [][\A j \in 1..Len(calls') :
            /\ (j \notin Ids /\ Accepted(calls'[j])) => calls'[j].reqLeft = RequestTimeout
            /\ (j \in Ids /\ calls[j].res = "pending") =>
                  /\ Tick => calls[j].reqLeft > 0
                  /\ calls'[j].res = "pending" =>
                        calls'[j].reqLeft = IF Tick THEN calls[j].reqLeft - 1
                                                    ELSE calls[j].reqLeft
                  /\ (calls'[j].res # "pending" /\ calls[j].q = "waiting"
                          /\ calls'[j].q = "waiting") =>
                        calls[j].reqLeft = 0 /\ calls'[j].res = "RequestTimeout"]_vars

\* One add() was rejected with the request timeout while its call was still
\* waiting, another while its call was running.
C10_Witness ==
    \E j, k \in Ids :
        /\ calls[j].res = "RequestTimeout" /\ calls[j].q = "waiting"
        /\ calls[k].res = "RequestTimeout" /\ calls[k].q = "running"

\* ----------------------------------------------------------------- C11
\* C11: the job timeout covers execution only: a call that has not been
\* started has no job clock and never the job-timeout outcome; the clock is
\* set to the full JobTimeout by the step that starts the call and runs down
\* with every tick while the call is running; when a running call leaves the
\* queue with its work function still active, its clock was due, a pending
\* add() is rejected with the job timeout, and the work function is left
\* active (abandoned, not stopped).
C11_JobTimeoutCoversExecutionOnly ==
    /\ [](\A j \in Ids :
            /\ calls[j].q \in {"none", "waiting"} =>
                  calls[j].jobLeft = 0 /\ calls[j].res # "JobTimeout"
            /\ calls[j].res = "JobTimeout" => Started(calls[j]))
    /\ [][\A j \in 1..Len(calls') :
            LET wasRunning == j \in Ids /\ calls[j].q = "running" IN
            /\ (calls'[j].q = "running" /\ ~wasRunning) =>
                  calls'[j].jobLeft = JobTimeout
            /\ (wasRunning /\ calls'[j].q = "running") =>
                  /\ Tick => calls[j].jobLeft > 0
                  /\ calls'[j].jobLeft = IF Tick THEN calls[j].jobLeft - 1
                                                ELSE calls[j].jobLeft
            /\ (wasRunning /\ calls'[j].q = "done" /\ calls'[j].work = "active") =>
                  /\ calls[j].jobLeft = 0
                  /\ calls[j].res = "pending" => calls'[j].res = "JobTimeout"
                  /\ calls'[j].res \in {"JobTimeout", "RequestTimeout"}]_vars

\* A call that was enqueued behind other waiting calls has been started
\* later, and its add() was rejected with the job timeout while its work
\* function is still active.
C11_Witness ==
    \E j \in Ids :
        /\ calls[j].coWait # {}
        /\ calls[j].res = "JobTimeout"
        /\ calls[j].q = "done"
        /\ calls[j].work = "active"

\* ----------------------------------------------------------------- C12
\* C12: an accepted call moves only from waiting to running and from running
\* to done, and a call whose add() was rejected while it was still waiting
\* (the request timeout expired in the queue) is never started afterwards:
\* its work function is not invoked once its caller was told it timed out.
C12_CancelledWhileQueuedNeverRuns ==
    [][\A j \in Ids :
          /\ calls[j].q = "waiting" => calls'[j].q \in {"waiting", "running"}
          /\ calls[j].q = "running" => calls'[j].q \in {"running", "done"}
          /\ calls[j].q = "done" => calls'[j].q = "done"
          /\ (calls[j].q = "waiting" /\ calls[j].res = "RequestTimeout") =>
                /\ calls'[j].q # "running"
                /\ calls'[j].work = "notStarted"]_vars

\* ----------------------------------------------------------------- C15
\* C15: add() adds nothing to the outcome of the work function: when the work
\* function of a call returns while its add() is pending, add() resolves with
\* that result, and when it throws, add() rejects with that very error; add()
\* settles with a result or a work error only through such a step, and any
\* other outcome is one of the queue's own rejections.
C15_AddSettlesWithWorkOutcome ==
    /\ [][\A j \in Ids :
            /\ (calls[j].res = "pending" /\ calls[j].work = "active"
                    /\ calls'[j].work = "returned") => calls'[j].res = "ok"
            /\ (calls[j].res = "pending" /\ calls[j].work = "active"
                    /\ calls'[j].work = "threw") => calls'[j].res = "err"
            /\ (calls[j].res = "pending" /\ calls'[j].res = "ok") =>
                    calls[j].work = "active" /\ calls'[j].work = "returned"
            /\ (calls[j].res = "pending" /\ calls'[j].res = "err") =>
                    calls[j].work = "active" /\ calls'[j].work = "threw"
            /\ calls[j].res # "pending" => calls'[j].res = calls[j].res]_vars
    /\ [](\A j \in Ids :
            calls[j].res \in {"pending", "ok", "err", "Overloaded",
                              "ServiceUnavailable", "JobTimeout", "RequestTimeout"})

\* One add() has resolved with the result of its work function and another
\* has rejected with the error its work function threw, the second after
\* waiting in the queue.
C15_Witness ==
    \E j, k \in Ids :
        /\ calls[j].res = "ok" /\ calls[j].work = "returned"
        /\ calls[k].res = "err" /\ calls[k].work = "threw"
        /\ calls[k].coWait # {}

\* ----------------------------------------------------------------- C16
\* C16: no retries: every call appears at most once in the execution order,
\* only a call that has never been started is started, and a work function
\* that has returned or thrown is never active again, whatever the outcome
\* of its add().
C16_WorkInvokedAtMostOnce ==
    /\ [](\A i, k \in 1..Len(execOrder) : i # k => execOrder[i] # execOrder[k])
    /\ [][/\ \A j \in Ids :
               /\ calls[j].work \in {"returned", "threw"} =>
                     calls'[j].work = calls[j].work
               /\ calls[j].work = "active" => calls'[j].work # "notStarted"
          /\ \/ execOrder' = execOrder
             \/ /\ Len(execOrder') = Len(execOrder) + 1
                /\ SubSeq(execOrder', 1, Len(execOrder)) = execOrder
                /\ LET j == execOrder'[Len(execOrder')]
                   IN  j \notin Ids \/ calls[j].work = "notStarted"]_vars

\* Three calls were each executed once: the work function of one threw, one
\* was abandoned by the job timeout, and the add() of one that was started
\* was rejected with the request timeout.
C16_Witness ==
    /\ Len(execOrder) = 3
    /\ \E j, k, l \in Ids :
          /\ calls[j].work = "threw" /\ calls[j].res = "err"
          /\ calls[k].res = "JobTimeout"
          /\ calls[l].res = "RequestTimeout" /\ Started(calls[l])

\* ----------------------------------------------------------------- C17
\* The step of the documented order that an instruction carries out.
StepOf(op) ==
    CASE op = "rotate()" -> "orient"
      [] op = "extract" -> "crop"
      [] op = "rotate(angle)" -> "rotate"
      [] op = "composite" -> "watermark"
      [] op \in SupportedFormats -> "encode"
      [] OTHER -> op

FixedOrder ==
    <<"orient", "crop", "resize", "flip", "flop", "rotate", "flatten", "watermark", "encode">>

\* The steps a request asks for, defaults included.
Requested(a, d) ==
    LET given == a.transform # Undefined
        t == Get(a.transform)
    IN  {"encode"}
          \cup (IF (IF given THEN OrElse(t.autoOrient, d.autoOrient) ELSE d.autoOrient)
                THEN {"orient"} ELSE {})
          \cup (IF given /\ t.crop # Undefined THEN {"crop"} ELSE {})
          \cup (IF given /\ t.resize # Undefined
                      /\ \E r \in t.resize : TruthyNumber(r.maxDimension)
                                               \/ TruthyNumber(r.width)
                                               \/ TruthyNumber(r.height)
                THEN {"resize"} ELSE {})
          \cup (IF given /\ t.flip = Some(TRUE) THEN {"flip"} ELSE {})
          \cup (IF given /\ t.flop = Some(TRUE) THEN {"flop"} ELSE {})
          \cup (IF given /\ t.rotate # Undefined THEN {"rotate"} ELSE {})
          \cup (IF given /\ TruthyString(t.flatten) THEN {"flatten"} ELSE {})
          \cup (IF WatermarkRequested(a) THEN {"watermark"} ELSE {})

Restrict(seq, S) == SelectSeq(seq, LAMBDA x : x \in S)

\* The steps carried out by a sequence of instructions; withMetadata is an
\* option of the encoder, not a step.
StepsOf(instr) ==
    LET ops == SelectSeq(instr, LAMBDA op : op # "withMetadata")
    IN  [i \in 1..Len(ops) |-> StepOf(ops[i])]

\* C17: when processStream hands the sharp instance to the encoder, the
\* instructions issued on that instance are, step for step, the fixed sequence
\* orient, crop, resize, flip, flop, rotate, flatten, watermark, encode
\* restricted to the steps the request asks for; the metadata option, when
\* issued, directly precedes the encoder.
C17_InstructionsInFixedOrder ==
    pc \in {"toBuffer", "returned"} =>
        /\ StepsOf(pipeline.instr) = Restrict(FixedOrder, Requested(args, defaults))
        /\ \A i \in 1..Len(pipeline.instr) :
              pipeline.instr[i] = "withMetadata" => i = Len(pipeline.instr) - 1

\* A request asking for every one of the nine steps has been encoded.
C17_Witness ==
    /\ pc = "returned"
    /\ Requested(args, defaults) = Range(FixedOrder)
    /\ Len(pipeline.instr) >= Len(FixedOrder)

\* ----------------------------------------------------------------- C18
\* The resize of the request sets maxDimension together with width or height.
ResizeConflict(a) ==
    /\ a.transform # Undefined
    /\ \E r \in Get(a.transform).resize :
          /\ TruthyNumber(r.maxDimension)
          /\ TruthyNumber(r.width) \/ TruthyNumber(r.height)

\* C18: a request whose resize sets maxDimension together with width or
\* height never gets past the first step of processStream: it has thrown a
\* BadRequestException, the one of the resize conflict whenever the MIME type
\* is accepted, and no result was produced.
C18_ResizeConflictRejected ==
    (ResizeConflict(args) /\ pc # "start") =>
        /\ pc = "threw"
        /\ result.kind = "threw"
        /\ result.error.type = "BadRequestException"
        /\ IsAcceptedMime(args.mimeType) =>
              result.error.message = "Cannot use maxDimension together with width/height"

\* The request {maxDimension, width} on an image, and nothing else wrong
\* with it, was rejected with the resize conflict.
C18_Witness ==
    /\ pc = "threw"
    /\ args.mimeType.type = "image"
    /\ args.transform # Undefined
    /\ \E r \in Get(args.transform).resize :
          /\ r.maxDimension # Undefined /\ r.width # Undefined /\ r.height = Undefined
    /\ args.output = Undefined
    /\ result.error = BadRequestException("Cannot use maxDimension together with width/height")

\* ----------------------------------------------------------------- C19
\* The format the request names, if any.
GivenFormat(a) == IF a.output = Undefined THEN Undefined ELSE Get(a.output).format

\* C19: of the requests that pass the other validations (MIME type, resize),
\* one naming a format outside the supported set ends with the
\* BadRequestException of the unsupported format and never with a result, and
\* one naming no format that ends with a result has it in the default format.
C19_UnsupportedFormatRejected ==
    (IsAcceptedMime(args.mimeType) /\ ~ResizeConflict(args)
        /\ pc \in {"returned", "threw"}) =>
        /\ (GivenFormat(args) # Undefined /\ Get(GivenFormat(args)) \notin SupportedFormats) =>
              /\ pc = "threw"
              /\ result.error = BadRequestException(
                     "Unsupported format: " \o Get(GivenFormat(args)))
        /\ (GivenFormat(args) = Undefined /\ pc = "returned") =>
              result.format = defaults.format

\* ----------------------------------------------------------------- C20
\* The calls to the codec among the logged calls: reading the input,
\* decoding metadata, scaling the overlay, instructions on an instance and
\* encoding; constructing an instance is not counted.
CodecCalls(log) == SelectSeq(log, LAMBDA op : op # "sharp")

\* C20: validation comes before any codec call: whenever processStream has
\* thrown a BadRequestException, no call to the codec was made before it.
C20_ValidationBeforeCodec ==
    (pc = "threw" /\ result.error.type = "BadRequestException") =>
        CodecCalls(codecLog) = <<>>

\* ----------------------------------------------------------------- C13
\* C13: a request timeout triggers the abort signal: once add() has rejected
\* the call of process() with the request timeout and process() has passed
\* that on, the abort signal of the request is aborted.
C13_RequestTimeoutAborts ==
    (AddCalled /\ calls[Watched].res = "RequestTimeout" /\ cpc # "handler") =>
        signal = "aborted"

\* ----------------------------------------------------------------- C14
\* C14: when the client disconnects before the response was ended, the abort
\* signal is aborted, from then on the encoded result is never handed to the
\* response, whether the job was waiting, in the codec or holding a result,
\* and the job does not complete.
C14_NoOutputAfterDisconnect ==
    /\ [](resp.raw = "disconnected" => signal = "aborted")
    /\ [][signal = "aborted" => resp'.sendCalled = resp.sendCalled]_vars
    /\ [](signal = "aborted" => (AddCalled /\ calls[Watched].res # "ok"))

\* ----------------------------------------------------------------- C21
\* C21: when an overlay and a watermark spec are both supplied, the input is
\* never piped, and every read of the base dimensions and every sizing or
\* placing of the overlay comes after the call of streamToBuffer and is made
\* on an instance built on the completed buffer; otherwise streamToBuffer is
\* never called, and an instance that reaches the encoder has the input
\* stream piped into it.
C21_BufferOnlyForWatermark ==
    IF args.watermark # Undefined /\ \E t \in args.transform : t.watermark # Undefined
    THEN /\ \A i \in 1..Len(codecLog) :
               codecLog[i] \in {"metadata", "scaleWatermark", "composite"} =>
                   /\ \E k \in 1..(i - 1) : codecLog[k] = "streamToBuffer"
                   /\ pipeline.input = "buffer"
         /\ "pipe" \notin Range(codecLog)
         /\ pipeline.input # "stream"
    ELSE /\ "streamToBuffer" \notin Range(codecLog)
         /\ pipeline.input # "buffer"
         /\ pc \in {"toBuffer", "returned"} =>
               pipeline.input = "stream" /\ "pipe" \in Range(codecLog)

\* A request with an overlay and a watermark spec was buffered, measured,
\* composited and encoded.
C21_Witness ==
    /\ pc = "returned"
    /\ WatermarkRequested(args)
    /\ pipeline.input = "buffer"
    /\ {"streamToBuffer", "metadata", "composite"} \subseteq Range(codecLog)

\* ----------------------------------------------------------------- C22
\* The size that sharp's resize(width, height, {fit, withoutEnlargement})
\* gives an image of the given size; width or height may be undefined, and
\* the missing side then follows in proportion.  A side that is scaled in
\* proportion is rounded and is at least one pixel.
SharpResize(size, width, height, fit, withoutEnlargement) ==
    LET W == size.width
        H == size.height
        \* the image scaled so that its width is w, or its height is h
        ToWidth(w) == Size(w, Max2(1, JsRound(H * w, W)))
        ToHeight(h) == Size(Max2(1, JsRound(W * h, H)), h)
    IN  IF height = Undefined
        THEN IF withoutEnlargement /\ Get(width) >= W THEN size ELSE ToWidth(Get(width))
        ELSE IF width = Undefined
        THEN IF withoutEnlargement /\ Get(height) >= H THEN size ELSE ToHeight(Get(height))
        ELSE LET w == Get(width)
                 h == Get(height)
                 \* the width is the side that limits the scale down: w / W <= h / H
                 widthLimits == w * H <= h * W
             IN  CASE fit = "inside" ->
                        IF withoutEnlargement /\ w >= W /\ h >= H THEN size
                        ELSE IF widthLimits THEN ToWidth(w) ELSE ToHeight(h)
                   [] fit = "outside" ->
                        IF withoutEnlargement /\ (w >= W \/ h >= H) THEN size
                        ELSE IF widthLimits THEN ToHeight(h) ELSE ToWidth(w)
                   [] fit \in {"cover", "fill"} ->
                        IF withoutEnlargement
                        THEN Size(Min2(W, w), Min2(H, h))
                        ELSE Size(w, h)
                   [] OTHER -> Size(w, h)

\* The size of the image that the instructions of applyTransformations
\* produce from an input of the given size without an EXIF orientation: the
\* extracted region, resized as the resize block asks, and turned when the
\* rotation is an odd multiple of 90 degrees (the rotations considered are
\* multiples of 90 degrees).
PostTransform(size, transform) ==
    IF transform = Undefined
    THEN size
    ELSE LET t == Get(transform)
             cropped == IF t.crop # Undefined
                        THEN Size(Get(t.crop).width, Get(t.crop).height)
                        ELSE size
             resized ==
                 IF t.resize = Undefined
                 THEN cropped
                 ELSE LET resize == Get(t.resize)
                          withoutEnlargement == OrElse(resize.withoutEnlargement, TRUE)
                      IN  IF TruthyNumber(resize.maxDimension)
                          THEN SharpResize(cropped, resize.maxDimension, resize.maxDimension,
                                           OrElse(resize.fit, "inside"), withoutEnlargement)
                          ELSE IF TruthyNumber(resize.width) \/ TruthyNumber(resize.height)
                          THEN SharpResize(cropped, resize.width, resize.height,
                                           OrElse(resize.fit, "cover"), withoutEnlargement)
                          ELSE cropped
         IN  IF t.rotate # Undefined /\ Get(t.rotate) % 180 = 90
             THEN Size(resized.height, resized.width)
             ELSE resized

\* C22: the base size that applyWatermark is given is the size of the image
\* after the requested resize, and the side of the square that the overlay is
\* fitted into is computed from the smaller side of that size.
C22_BaseIsPostTransform ==
    wm.base # Undefined =>
        LET post == PostTransform(files.image, args.transform)
        IN  /\ Get(wm.base) = post
            /\ \A i \in 1..Len(wm.composites) :
                  Max2(wm.composites[i].input.width, wm.composites[i].input.height)
                      <= ScaleTarget(OrElse(WatermarkConfig.scale, DefaultScale),
                                     post.width, post.height)

\* ----------------------------------------------------------------- C23
\* C23: for every base size and every scale, applyWatermark resizes the
\* overlay: the resize is never rejected, and in every composite the larger
\* side of the overlay equals round(scale% of the smaller side of the base)
\* unless that would enlarge it, the other side is in proportion to within a
\* pixel, no side exceeds the native size, and the overlay fits in the base.
C23_OverlayScaledToSmallerSide ==
    wm.base # Undefined =>
        LET base == Get(wm.base)
            native == files.overlay
            target == JsRound(Min2(base.width, base.height)
                                  * OrElse(WatermarkConfig.scale, DefaultScale), 100)
            Abs(x) == IF x < 0 THEN -x ELSE x
        IN  /\ result.error # Error("Expected positive integer for width but received 0 of type number")
            /\ \A i \in 1..Len(wm.composites) :
                  LET scaled == wm.composites[i].input
                  IN  /\ Max2(scaled.width, scaled.height)
                            = Min2(target, Max2(native.width, native.height))
                      /\ Abs(scaled.width * native.height - scaled.height * native.width)
                            <= Max2(native.width, native.height)
                      /\ scaled.width <= native.width /\ scaled.height <= native.height
                      /\ scaled.width <= base.width /\ scaled.height <= base.height

\* ----------------------------------------------------------------- C24
\* C24: in tile mode, for the base size given to applyWatermark, the scaled
\* overlay w x h and the spacing s, the composites are exactly one placement
\* per cell of a grid of rows x cols cells of (w + s) x (h + s), where cols
\* and rows are the least numbers of cells that cover the width and the
\* height of the base: placement (row, col) is at left = col * (w + s),
\* top = row * (h + s), every placement starts inside the base, every
\* placement carries the same overlay, and none carries a gravity.
C24_TileGrid ==
    (WatermarkConfig.mode = Some("tile") /\ "composite" \in Range(codecLog)) =>
        IF wm.composites = <<>>
        THEN FALSE
        ELSE
        LET base == Get(wm.base)
            n == Len(wm.composites)
            w == wm.composites[1].input.width
            h == wm.composites[1].input.height
            s == OrElse(WatermarkConfig.spacing, 0)
            cols == CHOOSE c \in 1..base.width :
                        (c - 1) * (w + s) < base.width /\ base.width <= c * (w + s)
            rows == CHOOSE r \in 1..base.height :
                        (r - 1) * (h + s) < base.height /\ base.height <= r * (h + s)
        IN  /\ n = rows * cols
            /\ \A row \in 0..(rows - 1) : \A col \in 0..(cols - 1) :
                  /\ wm.composites[row * cols + col + 1].left = Some(col * (w + s))
                  /\ wm.composites[row * cols + col + 1].top = Some(row * (h + s))
            /\ \A i \in 1..n :
                  /\ Get(wm.composites[i].left) < base.width
                  /\ Get(wm.composites[i].top) < base.height
                  /\ wm.composites[i].gravity = Undefined
                  /\ wm.composites[i].input = wm.composites[1].input
            /\ (base = Size(200, 200) /\ w = 50 /\ h = 50 /\ s = 10) => n = 4 * 4

\* A base of 200 x 200 was tiled with an overlay scaled to 50 x 50 at spacing
\* 10, a position being given, and encoded.
C24_Witness ==
    /\ pc = "returned"
    /\ WatermarkConfig.mode = Some("tile")
    /\ WatermarkConfig.spacing = Some(10)
    /\ WatermarkConfig.position # Undefined
    /\ wm.base = Some(Size(200, 200))
    /\ Len(wm.composites) = 16
    /\ wm.composites[1].input.width = 50 /\ wm.composites[1].input.height = 50
    /\ wm.composites[16].left = Some(180)

\* ----------------------------------------------------------------- C25
\* C25, as stated: a request whose transform has a watermark spec and which
\* uploads no watermark file is rejected by process() with the
\* BadRequestException 'Watermark file is required when watermark config is
\* provided', in a step that leaves the queue as it was; add() is never
\* called for it, its work function never runs and processStream is never
\* called for it.
C25_MissingOverlayRejectedBeforeAdmission ==
    /\ []((/\ \E t \in args.transform : t.watermark # Undefined
           /\ args.watermark = Undefined
           /\ cpc # "entry") =>
              /\ cpc = "threw"
              /\ resp.raw # "disconnected" => resp.body = "error"
              /\ resp.error = BadRequestException(
                     "Watermark file is required when watermark config is provided")
              /\ ~AddCalled
              /\ wpc = "entry"
              /\ pc = "idle" /\ codecLog = <<>>)
    /\ [][(/\ \E t \in args.transform : t.watermark # Undefined
           /\ args.watermark = Undefined
           /\ cpc = "entry") => UNCHANGED queueVars]_vars

\* C25, amended: a request whose transform has a watermark spec and which
\* uploads no watermark file is rejected by process() with a
\* BadRequestException, in a step that leaves the queue as it was: 'No file
\* uploaded' when it uploads no main file either, and 'Watermark file is
\* required when watermark config is provided' when it uploads one; add() is
\* never called for it, its work function never runs and processStream is
\* never called for it.
C25_MissingOverlayRejectedAfterMainFileCheck ==
    /\ []((/\ \E t \in args.transform : t.watermark # Undefined
           /\ args.watermark = Undefined
           /\ cpc # "entry") =>
              /\ cpc = "threw"
              /\ resp.raw # "disconnected" => resp.body = "error"
              /\ resp.error = IF mainFileData = NoMainFile
                              THEN BadRequestException("No file uploaded")
                              ELSE BadRequestException(
                                  "Watermark file is required when watermark config is provided")
              /\ ~AddCalled
              /\ wpc = "entry"
              /\ pc = "idle" /\ codecLog = <<>>)
    /\ [][(/\ \E t \in args.transform : t.watermark # Undefined
           /\ args.watermark = Undefined
           /\ cpc = "entry") => UNCHANGED queueVars]_vars

\* The request with a main file, a watermark spec and no watermark file was
\* rejected, and the queue went on serving another request afterwards.
C25_Witness ==
    /\ mainFileData = MainFile
    /\ \E t \in args.transform : t.watermark # Undefined
    /\ args.watermark = Undefined
    /\ cpc = "threw"
    /\ resp.error = BadRequestException(
           "Watermark file is required when watermark config is provided")
    /\ Len(calls) = OtherCalls
    /\ calls[1].res = "ok"

\* ----------------------------------------------------------------- C26
\* C26: the job of process() keeps its concurrency slot until the response
\* is completely written or has failed: while its work function waits for
\* finished(res.raw) the queue counts it as running, so that the slot is not
\* free for another job, and once the work function has returned or thrown
\* the slot is released.
C26_SlotHeldUntilResponseEnds ==
    AddCalled =>
        /\ wpc = "finished" => (calls[Watched].q = "running" /\ pending >= 1)
        /\ calls[Watched].work \in {"returned", "threw"} => calls[Watched].q = "done"

\* ----------------------------------------------------------------- C27
\* C27: a work function that is invoked when the abort signal of its request
\* is already aborted throws Error('Request aborted') without calling
\* processStream, so that no call to the codec is ever made for the request;
\* and under an aborted signal processStream never starts the encode.
C27_AbortedBeforeStartSkipsCodec ==
    /\ [][(wpc = "entry" /\ wpc' # "entry" /\ signal = "aborted") =>
             /\ wpc' = "throw"
             /\ workError' = Error("Request aborted")
             /\ pc' = "idle"
             /\ codecLog' = <<>>]_vars
    /\ []((wpc = "throw" /\ workError = Error("Request aborted") /\ pc = "idle") =>
             codecLog = <<>>)
    /\ [][signal = "aborted" =>
             /\ pc' # pc => pc' # "toBuffer"
             /\ codecLog' # codecLog => codecLog'[Len(codecLog')] # "toBuffer"]_vars

\* The client disconnected while the job was waiting in the queue; the job
\* was then started, its work function threw 'Request aborted' and no call to
\* the codec was made.
C27_Witness ==
    /\ AddCalled
    /\ execOrder = <<1, Watched>>
    /\ signal = "aborted"
    /\ calls[Watched].work = "threw"
    /\ calls[Watched].res = "err"
    /\ workError = Error("Request aborted")
    /\ codecLog = <<>>

\* ----------------------------------------------------------------- C28
\* C28: a rejected admission changes nothing: a step in which add() is
\* rejected with ServiceUnavailable or Overloaded leaves the waiting array,
\* the running count, the execution order and every earlier call as they
\* were, and a rejected call never has a request timer, is never in the
\* waiting array, and its work function is never invoked.
C28_RejectedAdmissionChangesNothing ==
    /\ [][(IsAddStep /\ calls'[NewId].res \in {"ServiceUnavailable", "Overloaded"}) =>
             /\ queue' = queue
             /\ pending' = pending
             /\ execOrder' = execOrder
             /\ SubSeq(calls', 1, Len(calls)) = calls]_vars
    /\ [](\A j \in Ids :
             calls[j].res \in {"ServiceUnavailable", "Overloaded"} =>
                 /\ calls[j].reqTimer = "unset"
                 /\ calls[j].work = "notStarted"
                 /\ calls[j].q = "none"
                 /\ j \notin Range(queue)
                 /\ j \notin Range(execOrder))

\* An add() was rejected Overloaded while one job was running and one was
\* waiting, and both are still as they were.
C28_Witness ==
    /\ Len(calls) = 3
    /\ calls[3].res = "Overloaded"
    /\ calls[2].q = "waiting"
    /\ calls[1].q = "running"
    /\ queue = <<2>>

\* ----------------------------------------------------------------- C29
\* C29: the scheduler is work-conserving: no call is waiting while fewer
\* than concurrency calls are running; an add() accepted while a slot is free
\* starts its call in the same step; and a step in which a running call
\* completes, fails or times out starts the head of the waiting array, the
\* best waiting call, when there is one.
C29_WorkConserving ==
    /\ [](queue # <<>> => pending = concurrency)
    /\ [][(IsAddStep /\ Accepted(calls'[NewId]) /\ pending < concurrency) =>
             /\ calls'[NewId].q = "running"
             /\ Started(calls'[NewId])]_vars
    /\ [][\A j \in Ids :
             (calls[j].q = "running" /\ calls'[j].q = "done" /\ queue # <<>>) =>
                 /\ calls'[Head(queue)].q = "running"
                 /\ Started(calls'[Head(queue)])
                 /\ queue' = Tail(queue)
                 /\ \A k \in Range(queue') : Better(calls, Head(queue), k)]_vars

\* With one slot, the first call completed, the second was started in its
\* place and the third is waiting.
C29_Witness ==
    /\ concurrency = 1
    /\ Len(calls) = 3
    /\ calls[1].res = "ok"
    /\ execOrder = <<1, 2>>
    /\ calls[2].q = "running"
    /\ calls[2].coWait = {}
    /\ queue = <<3>>

\* ----------------------------------------------------------------- C30
\* Timers fire when they are due and time passes: the event loop runs a due
\* timer callback, and nothing in the program stops the clock.
Fairness ==
    /\ WF_vars(Tick)
    /\ \A j \in 1..MaxCalls : WF_vars(RequestTimeoutFire(j))
    /\ \A j \in 1..MaxCalls : WF_vars(JobTimeoutFire(j))

\* The queue with one slot and no depth limit, while the service is not
\* shut down.
LiveInit ==
    /\ Init
    /\ concurrency = 1
    /\ maxQueueSize = 0

LiveNext ==
    \/ \E p \in Priorities : Add(p)
    \/ \E j \in 1..MaxCalls : \E ok \in BOOLEAN : WorkFinish(j, ok)
    \/ \E j \in 1..MaxCalls : JobTimeoutFire(j)
    \/ \E j \in 1..MaxCalls : RequestTimeoutFire(j)
    \/ Tick

LiveSpec == LiveInit /\ [][LiveNext]_vars /\ Fairness

\* C30: every accepted add() eventually settles, whether or not its work
\* function ever finishes and whether or not the call is ever started (again
\* and again a moment comes at which no accepted call is pending); it
\* settles once, with the result or the error of its work function or with a
\* timeout error; every accepted call has its request timer armed until it
\* settles, and from then on the timer is not armed and does not fire.
C30_AcceptedAddSettlesOnce ==
    /\ []<>(\A j \in Ids : Accepted(calls[j]) => calls[j].res # "pending")
    /\ [](\A j \in Ids :
             /\ (Accepted(calls[j]) /\ calls[j].res = "pending") => calls[j].reqTimer = "armed"
             /\ (Accepted(calls[j]) /\ calls[j].res # "pending") =>
                   /\ calls[j].res \in {"ok", "err", "JobTimeout", "RequestTimeout"}
                   /\ calls[j].reqTimer = IF calls[j].res = "RequestTimeout"
                                          THEN "fired" ELSE "cleared")
    /\ [][\A j \in Ids :
             calls[j].res # "pending" =>
                 /\ calls'[j].res = calls[j].res
                 /\ calls'[j].reqTimer = calls[j].reqTimer]_vars

\* One call settled with the request timeout while it was still waiting, and
\* the call whose work function never finished settled with a timeout too.
C30_Witness ==
    /\ Len(calls) = 3
    /\ calls[1].work = "active" /\ calls[1].res = "JobTimeout"
    /\ calls[3].res = "RequestTimeout" /\ calls[3].q = "waiting"
    /\ calls[3].reqTimer = "fired"
====
